---- MODULE Spec2Model ----
(***************************************************************************)
(* State machine of the App component (src/App.tsx): the debounced         *)
(* location resolver (useEffect on locationText, its timer callback and    *)
(* the fetchLocationData responses) and the one-shot flows (crop advice,   *)
(* photo analysis, voice session) that share result / isLoading.           *)
(*                                                                         *)
(* Strings are sequences of one-character strings.  An optional value      *)
(* (T | null) is a sequence of length 0 (null) or 1 (the value).           *)
(***************************************************************************)
EXTENDS Integers, Sequences, FiniteSets, Bags, TLC

\* ---------------------------------------------------------------- bounds
\* Number of timers window.setTimeout may hand out in one behaviour.
MaxTimers == 3

\* Number of one-shot requests (advice / photo) in flight at once.
MaxInFlight == 2

\* ------------------------------------------------------- program constants
\* if (locationText.trim().length > 3)
MinQueryLen == 3

\* ------------------------------------------------------------ input sets
\* Values the location input can take: empty, short after trimming although
\* longer than the threshold untrimmed, and two resolvable values (one of
\* them with leading white space).
Queries ==
    { <<>>,
      <<" ", "a", "b", " ">>,
      <<"p", "u", "n", "e">>,
      <<" ", "a", "g", "r", "a">> }

\* The location typed in the specification of the whole component.
FlowQueries == { <<"p", "u", "n", "e">> }

\* Payloads fetchLocationData can resolve to (WeatherData, by soilType).
Payloads == {"loam", "clay"}

\* Outputs of generateCropAdvice / generatePhotoAnalysis.
Responses == {<<"o", "k">>}

\* Final responses of the voice session.
VoiceResponses == {<<"h", "i">>}

\* Values a rejected promise can carry: an Error with a message, an Error
\* with the empty message (new Error()), a value that is not an Error and has
\* no message (FileReader.onerror rejects with a ProgressEvent), and a value
\* that is not an Error but has a message ({ message: "x" }).
Errors == { [isError |-> TRUE, message |-> <<"5", "0", "3">>],
            [isError |-> TRUE, message |-> <<>>],
            [isError |-> FALSE, message |-> <<>>],
            [isError |-> FALSE, message |-> <<"x">>] }

Languages == {"en", "hi"}

None == <<>>
Some(x) == <<x>>

\* --------------------------------------------------------- pure functions
IsSpace(c) == c = " "

RECURSIVE TrimStart(_)
TrimStart(s) ==
    IF s = <<>> THEN s
    ELSE IF IsSpace(Head(s)) THEN TrimStart(Tail(s)) ELSE s

RECURSIVE TrimEnd(_)
TrimEnd(s) ==
    IF s = <<>> THEN s
    ELSE IF IsSpace(s[Len(s)]) THEN TrimEnd(SubSeq(s, 1, Len(s) - 1)) ELSE s

\* String.prototype.trim
Trim(s) == TrimEnd(TrimStart(s))

\* Variant: the length is taken without trimming.
ResolvableNoTrim(s) == Len(s) > MinQueryLen

\* locationText.trim().length > 3
Resolvable(s) == Len(Trim(s)) > MinQueryLen

\* t(key): the localized string of a key in a language.
T(lang, key) == <<lang, ".", key>>

\* error instanceof Error ? error.message : t('unknownError')
ErrorMessage(lang, e) == IF e.isError THEN e.message ELSE T(lang, "unknownError")

\* `${t(label)} \n${t('details')}: ${errorMessage}`
FormatError(lang, label, e) ==
    T(lang, label) \o <<" ", "\n">> \o T(lang, "details") \o <<":", " ">>
        \o ErrorMessage(lang, e)

\* ------------------------------------------------------------------ state
VARIABLES
    language,            \* useState('en')
    locationText,        \* useState('')
    imageFile,           \* useState<File | null>(null): TRUE when a file is selected
    result,              \* useState<string | null>(null)
    isLoading,           \* useState(false)
    weatherData,         \* useState<WeatherData | null>(null)
    isFetchingWeather,   \* useState(false)
    debounceTimeoutRef,  \* useRef<number | null>(null); 0 is null
    nextTimerId,         \* the handle the next window.setTimeout returns
    timers,              \* live timers: [id, text], text the closure's locationText
    lookups,             \* fetchLocationData calls awaiting their response
    fetchCalls,          \* log of all fetchLocationData calls, in order
    weatherSrc,          \* the lookup whose response wrote weatherData
    consoleErrors,       \* number of console.error calls
    pending,             \* bag of advice / photo requests awaiting a response
    isSessionActive,     \* useVoiceInteraction
    isConnecting,        \* useVoiceInteraction
    voiceError,          \* useVoiceInteraction: error
    ev                   \* the handler that ran last

resolverVars ==
    <<locationText, weatherData, isFetchingWeather, debounceTimeoutRef,
      nextTimerId, timers, lookups, fetchCalls, weatherSrc, consoleErrors>>

flowVars == <<result, isLoading, pending>>

voiceVars == <<isSessionActive, isConnecting, voiceError>>

formVars == <<language, imageFile>>

vars == <<resolverVars, flowVars, voiceVars, formVars, ev>>

\* State after the first render and the first run of the effect: the query
\* is empty, so the else branch ran.
Init ==
    /\ language = "en"
    /\ locationText = <<>>
    /\ imageFile = FALSE
    /\ result = None
    /\ isLoading = FALSE
    /\ weatherData = None
    /\ isFetchingWeather = FALSE
    /\ debounceTimeoutRef = 0
    /\ nextTimerId = 1
    /\ timers = {}
    /\ lookups = {}
    /\ fetchCalls = <<>>
    /\ weatherSrc = None
    /\ consoleErrors = 0
    /\ pending = EmptyBag
    /\ isSessionActive = FALSE
    /\ isConnecting = FALSE
    /\ voiceError = FALSE
    /\ ev = [op |-> "mount"]

\* ----------------------------------------------------------- the resolver
\* Variant: clearTimeout has no effect.
ClearTimeoutNoop(ts, id) == ts

\* clearTimeout(id): the timer with that handle, if live, never fires.
ClearTimeout(ts, id) == {t \in ts : t.id # id}

\* Variant: the timer is never registered.
SetTimeoutDropped(ts, id, text) == ts

\* window.setTimeout(callback, 1500): a live timer whose callback holds the
\* locationText of the render that ran the effect.
SetTimeout(ts, id, text) == ts \cup {[id |-> id, text |-> text]}

\* Variant: the null check of the handle is inverted.
PendingAfterClearInverted ==
    IF debounceTimeoutRef = 0
    THEN ClearTimeout(timers, debounceTimeoutRef)
    ELSE timers

\* if (debounceTimeoutRef.current) clearTimeout(debounceTimeoutRef.current)
PendingAfterClear ==
    IF debounceTimeoutRef # 0
    THEN ClearTimeout(timers, debounceTimeoutRef)
    ELSE timers

\* The input's onChange followed by the effect of the render it causes.
\* setLocationText with the current value causes no render and no effect.
OnQueryChange(v) ==
    /\ v # locationText
    /\ locationText' = v
    /\ IF Resolvable(v)
       THEN /\ isFetchingWeather' = TRUE
            /\ weatherData' = None
            /\ weatherSrc' = None
            /\ timers' = SetTimeout(PendingAfterClear, nextTimerId, v)
            /\ debounceTimeoutRef' = nextTimerId
            /\ nextTimerId' = nextTimerId + 1
       ELSE /\ weatherData' = None
            /\ weatherSrc' = None
            /\ isFetchingWeather' = FALSE
            /\ timers' = PendingAfterClear
            /\ UNCHANGED <<debounceTimeoutRef, nextTimerId>>
    /\ ev' = [op |-> "change", text |-> v]
    /\ UNCHANGED <<lookups, fetchCalls, consoleErrors>>
    /\ UNCHANGED <<flowVars, voiceVars, formVars>>

\* Variant: the callback is registered with setInterval, so the timer stays
\* live after it has fired.
TimerElapseRepeats(t) ==
    /\ t \in timers
    /\ timers' = timers
    /\ lookups' = lookups \cup {[id |-> t.id, arg |-> t.text]}
    /\ fetchCalls' = Append(fetchCalls, [id |-> t.id, arg |-> t.text])
    /\ ev' = [op |-> "elapse", id |-> t.id, text |-> t.text]
    /\ UNCHANGED <<locationText, weatherData, isFetchingWeather,
                   debounceTimeoutRef, nextTimerId, weatherSrc, consoleErrors>>
    /\ UNCHANGED <<flowVars, voiceVars, formVars>>

\* The timer callback up to its await: fetchLocationData(locationText) with
\* the locationText of the render that scheduled the timer.
TimerElapse(t) ==
    /\ t \in timers
    /\ timers' = timers \ {t}
    /\ lookups' = lookups \cup {[id |-> t.id, arg |-> t.text]}
    /\ fetchCalls' = Append(fetchCalls, [id |-> t.id, arg |-> t.text])
    /\ ev' = [op |-> "elapse", id |-> t.id, text |-> t.text]
    /\ UNCHANGED <<locationText, weatherData, isFetchingWeather,
                   debounceTimeoutRef, nextTimerId, weatherSrc, consoleErrors>>
    /\ UNCHANGED <<flowVars, voiceVars, formVars>>

\* fetchLocationData resolves: setWeatherData(data), then finally.
LookupSuccess(l, data) ==
    /\ l \in lookups
    /\ lookups' = lookups \ {l}
    /\ weatherData' = Some(data)
    /\ weatherSrc' = Some(l)
    /\ isFetchingWeather' = FALSE
    /\ ev' = [op |-> "lookupOk", id |-> l.id, text |-> l.arg, data |-> data]
    /\ UNCHANGED <<locationText, debounceTimeoutRef, nextTimerId, timers,
                   fetchCalls, consoleErrors>>
    /\ UNCHANGED <<flowVars, voiceVars, formVars>>

\* Variant: the finally block is missing.
LookupFailureNoFinally(l) ==
    /\ l \in lookups
    /\ lookups' = lookups \ {l}
    /\ consoleErrors' = consoleErrors + 1
    /\ ev' = [op |-> "lookupFail", id |-> l.id, text |-> l.arg]
    /\ UNCHANGED <<locationText, weatherData, weatherSrc, isFetchingWeather,
                   debounceTimeoutRef, nextTimerId, timers, fetchCalls>>
    /\ UNCHANGED <<flowVars, voiceVars, formVars>>

\* Variant: the catch block also shows the error to the user.
LookupFailureShown(l) ==
    /\ l \in lookups
    /\ lookups' = lookups \ {l}
    /\ consoleErrors' = consoleErrors + 1
    /\ isFetchingWeather' = FALSE
    /\ result' = Some(T(language, "unknownError"))
    /\ ev' = [op |-> "lookupFail", id |-> l.id, text |-> l.arg]
    /\ UNCHANGED <<locationText, weatherData, weatherSrc, debounceTimeoutRef,
                   nextTimerId, timers, fetchCalls>>
    /\ UNCHANGED <<isLoading, pending, voiceVars, formVars>>

\* fetchLocationData rejects: console.error(error), then finally.
LookupFailure(l) ==
    /\ l \in lookups
    /\ lookups' = lookups \ {l}
    /\ consoleErrors' = consoleErrors + 1
    /\ isFetchingWeather' = FALSE
    /\ ev' = [op |-> "lookupFail", id |-> l.id, text |-> l.arg]
    /\ UNCHANGED <<locationText, weatherData, weatherSrc, debounceTimeoutRef,
                   nextTimerId, timers, fetchCalls>>
    /\ UNCHANGED <<flowVars, voiceVars, formVars>>

\* ----------------------------------------------------- the one-shot flows
\* The advice section, and with it the advice button, is rendered only when
\* weatherData is set; the button is disabled while isLoading.
AdviceEnabled == weatherData # None /\ ~isLoading

\* The analyse button is rendered only when a file is selected; it is
\* disabled while isLoading.
PhotoEnabled == imageFile /\ ~isLoading

\* The voice button is disabled while isConnecting.
VoiceEnabled == ~isConnecting

\* A request of a one-shot flow awaiting its response, with the language of
\* the render its handler was created in (the t its catch block uses).
Request(kind) == [kind |-> kind, lang |-> language]

\* handleGetCropAdvice up to its await.  An empty weatherData returns early.
HandleGetCropAdvice ==
    /\ IF weatherData = None
       THEN UNCHANGED flowVars
       ELSE /\ result' = None
            /\ isLoading' = TRUE
            /\ pending' = pending (+) SetToBag({Request("advice")})
    /\ ev' = [op |-> "advice", loc |-> locationText, weather |-> weatherData,
                src |-> weatherSrc]
    /\ UNCHANGED <<resolverVars, voiceVars, formVars>>

\* Variant: the early return on a missing file is absent.
HandleImageAnalysisNoGuard ==
    /\ result' = None
    /\ isLoading' = TRUE
    /\ pending' = pending (+) SetToBag({Request("read")})
    /\ ev' = [op |-> "photo", started |-> imageFile]
    /\ UNCHANGED <<resolverVars, voiceVars, formVars>>

\* handleImageAnalysis up to its first await (fileToBase64).
HandleImageAnalysis ==
    /\ IF ~imageFile
       THEN UNCHANGED flowVars
       ELSE /\ result' = None
            /\ isLoading' = TRUE
            /\ pending' = pending (+) SetToBag({Request("read")})
    /\ ev' = [op |-> "photo", started |-> imageFile]
    /\ UNCHANGED <<resolverVars, voiceVars, formVars>>

\* fileToBase64 resolves: generatePhotoAnalysis(imageBase64, language, locationText).
FileRead(r) ==
    /\ BagIn(r, pending)
    /\ r.kind = "read"
    /\ pending' = (pending (-) SetToBag({r})) (+) SetToBag({[r EXCEPT !.kind = "photo"]})
    /\ ev' = [op |-> "fileRead"]
    /\ UNCHANGED <<result, isLoading>>
    /\ UNCHANGED <<resolverVars, voiceVars, formVars>>

\* Variant: the advice handler's catch block was copied from the photo
\* handler with its label.
ErrorLabelCopied(kind) == "photoError"

\* The key of the category label of a flow's failure message.
ErrorLabel(kind) == IF kind = "advice" THEN "adviceError" ELSE "photoError"

\* Variant: the response is shown only if no result is on display.
RequestSuccessFirstWins(r, response) ==
    /\ BagIn(r, pending)
    /\ r.kind \in {"advice", "photo"}
    /\ pending' = pending (-) SetToBag({r})
    /\ result' = IF result = None THEN Some(response) ELSE result
    /\ isLoading' = FALSE
    /\ ev' = [op |-> "requestOk", kind |-> r.kind, lang |-> r.lang, out |-> response]
    /\ UNCHANGED <<resolverVars, voiceVars, formVars>>

\* The awaited call resolves: setResult(response), then finally.
RequestSuccess(r, response) ==
    /\ BagIn(r, pending)
    /\ r.kind \in {"advice", "photo"}
    /\ pending' = pending (-) SetToBag({r})
    /\ result' = Some(response)
    /\ isLoading' = FALSE
    /\ ev' = [op |-> "requestOk", kind |-> r.kind, lang |-> r.lang, out |-> response]
    /\ UNCHANGED <<resolverVars, voiceVars, formVars>>

\* The awaited call rejects (fileToBase64 included): the catch block, then
\* finally.  t is the one of the render the handler was created in.
RequestFailure(r, e) ==
    /\ BagIn(r, pending)
    /\ pending' = pending (-) SetToBag({r})
    /\ result' = Some(FormatError(r.lang, ErrorLabel(r.kind), e))
    /\ isLoading' = FALSE
    /\ ev' = [op |-> "requestFail", kind |-> r.kind, lang |-> r.lang, err |-> e]
    /\ UNCHANGED <<resolverVars, voiceVars, formVars>>

\* Variant: starting a session does not clear result.
HandleToggleVoiceKeepsResult ==
    /\ IF isSessionActive
       THEN /\ isSessionActive' = FALSE
            /\ UNCHANGED <<isConnecting, voiceError>>
            /\ UNCHANGED flowVars
       ELSE /\ isLoading' = TRUE
            /\ isConnecting' = TRUE
            /\ voiceError' = FALSE
            /\ UNCHANGED <<isSessionActive, pending, result>>
    /\ ev' = [op |-> "toggleVoice", stop |-> isSessionActive]
    /\ UNCHANGED <<resolverVars, formVars>>

\* handleToggleVoice.
HandleToggleVoice ==
    /\ IF isSessionActive
       THEN /\ isSessionActive' = FALSE       \* stopSession()
            /\ UNCHANGED <<isConnecting, voiceError>>
            /\ UNCHANGED flowVars
       ELSE /\ result' = None
            /\ isLoading' = TRUE
            /\ isConnecting' = TRUE           \* startSession(language, locationText)
            /\ voiceError' = FALSE
            /\ UNCHANGED <<isSessionActive, pending>>
    /\ ev' = [op |-> "toggleVoice", stop |-> isSessionActive]
    /\ UNCHANGED <<resolverVars, formVars>>

\* useVoiceInteraction: the session that was starting is established.
VoiceConnected ==
    /\ isConnecting
    /\ isConnecting' = FALSE
    /\ isSessionActive' = TRUE
    /\ ev' = [op |-> "voiceConnected"]
    /\ UNCHANGED <<voiceError, flowVars, resolverVars, formVars>>

\* useVoiceInteraction: the session fails while starting or while active and
\* reports it on its error channel.
VoiceFailure ==
    /\ isConnecting \/ isSessionActive
    /\ isConnecting' = FALSE
    /\ isSessionActive' = FALSE
    /\ voiceError' = TRUE
    /\ ev' = [op |-> "voiceFail"]
    /\ UNCHANGED <<flowVars, resolverVars, formVars>>

\* handleFinalVoiceResponse, called by the active session.
HandleFinalVoiceResponse(aiResponse) ==
    /\ isSessionActive
    /\ result' = Some(aiResponse)
    /\ isLoading' = FALSE
    /\ ev' = [op |-> "voiceFinal", out |-> aiResponse]
    /\ UNCHANGED <<pending, voiceVars, resolverVars, formVars>>

\* The language select's onChange.
SetLanguage(l) ==
    /\ l # language
    /\ language' = l
    /\ ev' = [op |-> "language"]
    /\ UNCHANGED <<imageFile, flowVars, voiceVars, resolverVars>>

\* ImageUploader's onFileSelect.
SetImageFile(f) ==
    /\ f # imageFile
    /\ imageFile' = f
    /\ ev' = [op |-> "image"]
    /\ UNCHANGED <<language, flowVars, voiceVars, resolverVars>>

\* ------------------------------------------------------- resolver properties
\* The query has not changed since the timer of lookup l was scheduled: every
\* change to a resolvable value stores a fresh handle, every other change
\* leaves a value no lookup is issued for.
Current(l) == l.id = debounceTimeoutRef /\ l.arg = locationText

\* The timer scheduled by the last query change is still pending.
TimerPending ==
    \E t \in timers : t.id = debounceTimeoutRef /\ t.text = locationText

\* The number of fetchLocationData calls made by the timer with handle id.
CallsOf(id) == Cardinality({i \in 1..Len(fetchCalls) : fetchCalls[i].id = id})

\* C1: the record on display was published by a lookup issued for the query
\* as it is now; a response to a lookup issued before the last query change
\* is never published, so it never overwrites a newer lookup's record.
C1_NoStalePublication == weatherSrc # None => Current(weatherSrc[1])

\* C2: whenever the current query has trimmed length <= 3, weatherData is
\* empty.
C2_ShortQueryNoRecord == ~Resolvable(locationText) => weatherData = None

C4_OneRequestForFinalValue ==
    /\ \A t \in timers : t.id = debounceTimeoutRef /\ t.text = locationText
    /\ ev.op = "elapse" => ev.id = debounceTimeoutRef /\ ev.text = locationText
    /\ \A i \in 1..Len(fetchCalls) : CallsOf(fetchCalls[i].id) = 1

\* C4, its case: the second change of a burst superseded the first before
\* its timer elapsed, and the timer of the second has just fired.
C4_Witness ==
    /\ ev.op = "elapse"
    /\ ev.id = 2
    /\ fetchCalls = <<[id |-> 2, arg |-> locationText]>>

\* C5: once the query is a resolvable value, either it changes again or
\* exactly one lookup for that value is issued; never two.
C5_ExactlyOneLookup ==
    /\ [](\A id \in 1..MaxTimers : CallsOf(id) <= 1)
    /\ \A id \in 1..MaxTimers : \A q \in Queries :
          (debounceTimeoutRef = id /\ locationText = q /\ Resolvable(q))
              ~> (\/ ~(debounceTimeoutRef = id /\ locationText = q)
                  \/ (/\ CallsOf(id) = 1
                      /\ \E i \in 1..Len(fetchCalls) : fetchCalls[i] = [id |-> id, arg |-> q]))

\* C5, its case: after an earlier lookup that is still in flight, the query
\* changed to another resolvable value and its one lookup has been issued.
C5_Witness ==
    /\ Resolvable(locationText)
    /\ Len(fetchCalls) = 2
    /\ Cardinality(lookups) = 2
    /\ fetchCalls[2] = [id |-> debounceTimeoutRef, arg |-> locationText]
    /\ CallsOf(debounceTimeoutRef) = 1

\* C6: right after a change to a value of trimmed length <= 3, weatherData is
\* empty, isFetchingWeather is false and no timer is pending; no
\* fetchLocationData call is ever made with such a value.
C6_ShortQuerySuppressed ==
    /\ (ev.op = "change" /\ Len(Trim(ev.text)) <= MinQueryLen) =>
          (weatherData = None /\ ~isFetchingWeather /\ timers = {})
    /\ \A i \in 1..Len(fetchCalls) : Len(Trim(fetchCalls[i].arg)) > MinQueryLen

\* C6, its case: the query has just changed to a value that is longer than
\* the threshold only with its white space, cancelling a pending timer while
\* an earlier lookup is in flight.
C6_Witness ==
    /\ ev.op = "change"
    /\ ev.text = <<" ", "a", "b", " ">>
    /\ debounceTimeoutRef = 2
    /\ Len(fetchCalls) = 1
    /\ lookups # {}

\* C7: at most one debounce timer is live.
C7_AtMostOneTimer == Cardinality(timers) <= 1

\* C7, its case: a change scheduled a second timer while the first had not
\* fired.
C7_Witness ==
    /\ Cardinality(timers) = 1
    /\ debounceTimeoutRef = 2
    /\ fetchCalls = <<>>

\* C10: a step in which a lookup fails (the one that calls console.error)
\* ends with weatherData empty and isFetchingWeather false and leaves result
\* and isLoading as they were.
C10_FailureLeavesNoRecord ==
    [][consoleErrors' # consoleErrors =>
          /\ weatherData' = None
          /\ ~isFetchingWeather'
          /\ UNCHANGED <<result, isLoading>>]_vars

\* C11: isFetchingWeather, once true, becomes false again (timers elapse and
\* lookups complete); right after a successful lookup weatherData is exactly
\* the payload fetchLocationData returned.
C11_FetchingEndsAndPayloadPublished ==
    /\ [](ev.op = "lookupOk" => weatherData = Some(ev.data))
    /\ isFetchingWeather ~> ~isFetchingWeather

\* C11, its case: the lookup of the current query has just returned "clay"
\* and lowered the flag that the query change had raised.
C11_Witness ==
    /\ ev.op = "lookupOk"
    /\ ev.data = "clay"
    /\ ev.id = debounceTimeoutRef
    /\ ev.text = locationText
    /\ ~isFetchingWeather

\* C15: right after a change to a value of trimmed length > 3,
\* isFetchingWeather is true, weatherData is empty and exactly one timer is
\* pending, the one scheduled for the new value.
C15_ResolvableQueryScheduled ==
    (ev.op = "change" /\ Len(Trim(ev.text)) > MinQueryLen) =>
        /\ locationText = ev.text
        /\ isFetchingWeather
        /\ weatherData = None
        /\ timers = {[id |-> debounceTimeoutRef, text |-> ev.text]}

\* C15, its case: the query has just changed to a resolvable value for the
\* third time, after one timer was superseded and one lookup was issued and
\* answered.
C15_Witness ==
    /\ ev.op = "change"
    /\ Len(Trim(ev.text)) > MinQueryLen
    /\ debounceTimeoutRef = 3
    /\ Len(fetchCalls) = 1
    /\ lookups = {}

\* ---------------------------------------------------- one-shot properties
\* The number of requests of the given kinds awaiting their response.
InFlight(kinds) ==
    LET rs == {r \in BagToSet(pending) : r.kind \in kinds}
        RECURSIVE Sum(_)
        Sum(S) == IF S = {} THEN 0
                  ELSE LET r == CHOOSE x \in S : TRUE
                       IN CopiesIn(r, pending) + Sum(S \ {r})
    IN Sum(rs)

\* The handler that ran last started a flow: it passed its guard.
FlowStarted(e) ==
    \/ e.op = "advice" /\ e.weather # None
    \/ e.op = "photo" /\ e.started
    \/ e.op = "toggleVoice" /\ ~e.stop

\* The handler that ran last completed a flow.
FlowCompleted(e) == e.op \in {"requestOk", "requestFail", "voiceFinal"}

\* C8: at most one generateCropAdvice request and at most one photo-analysis
\* request (fileToBase64, then generatePhotoAnalysis) is in flight, and while
\* one is in flight isLoading, which disables both controls, is true.
C8_OneRequestPerAction ==
    /\ InFlight({"advice"}) <= 1
    /\ InFlight({"read", "photo"}) <= 1
    /\ pending # EmptyBag => isLoading

\* C9: once no advice or photo request is in flight and no voice session is
\* connecting or active, isLoading is false.
C9_IdleAfterFlowEnds ==
    (pending = EmptyBag /\ ~isConnecting /\ ~isSessionActive) => ~isLoading

\* C12: result is written by flow completions and flow starts only, and each
\* writes it whole: a completion leaves exactly its own value (the raw
\* output, the formatted failure message, the voice response), a start
\* leaves it empty, every other step leaves it as it was.  So result is
\* always the value of the last completion, or empty after a later start.
C12_LastWriterWins ==
    [][/\ ev'.op = "requestOk" => result' = Some(ev'.out)
       /\ ev'.op = "requestFail" =>
              result' = Some(FormatError(ev'.lang, ErrorLabel(ev'.kind), ev'.err))
       /\ ev'.op = "voiceFinal" => result' = Some(ev'.out)
       /\ FlowStarted(ev') => result' = None
       /\ ~FlowCompleted(ev') /\ ~FlowStarted(ev') => result' = result]_vars

\* C12, its case: a request completes with success while another request is
\* in flight and a voice session is active.
C12_Witness ==
    /\ ev.op = "requestOk"
    /\ result = Some(ev.out)
    /\ pending # EmptyBag
    /\ isSessionActive

\* The failure message of C13: the action's category label, a space and a
\* line break, the details label, a colon and a space, the detail.
FailureText(lang, kind, detail) ==
    T(lang, IF kind = "advice" THEN "adviceError" ELSE "photoError")
        \o <<" ", "\n">> \o T(lang, "details") \o <<":", " ">> \o detail

\* C13 as stated: after a failed request result is the failure message whose
\* detail is the error's message if it has one and t('unknownError') if it
\* has none; after a successful request result is the raw output.
C13_DetailIsMessageOrFallback ==
    /\ ev.op = "requestFail" =>
          result = Some(FailureText(ev.lang, ev.kind,
                          IF ev.err.message # <<>>
                          THEN ev.err.message
                          ELSE T(ev.lang, "unknownError")))
    /\ ev.op = "requestOk" => result = Some(ev.out)

\* C13 as amended: the detail is the message of the rejection value if that
\* value is an Error (the empty message included) and t('unknownError') if
\* it is not an Error (whether or not it carries a message); the labels are
\* those of the language selected when the action was triggered.
C13_DetailIsErrorMessageOrFallback ==
    /\ ev.op = "requestFail" =>
          result = Some(FailureText(ev.lang, ev.kind,
                          IF ev.err.isError
                          THEN ev.err.message
                          ELSE T(ev.lang, "unknownError")))
    /\ ev.op = "requestOk" => result = Some(ev.out)

\* C13, its case: an advice request failed with an Error whose message is
\* empty, after the language was changed while it was in flight.
C13_Witness ==
    /\ ev.op = "requestFail"
    /\ ev.kind = "advice"
    /\ ev.err = [isError |-> TRUE, message |-> <<>>]
    /\ ev.lang # language

\* The handler that ran last belongs to the resolver.
ResolverStep(e) == e.op \in {"change", "elapse", "lookupOk", "lookupFail"}

\* The handler that ran last belongs to a one-shot flow.
FlowStep(e) ==
    e.op \in {"advice", "photo", "fileRead", "requestOk", "requestFail",
              "toggleVoice", "voiceConnected", "voiceFail", "voiceFinal"}

\* C14: query changes, timer elapses and lookup responses leave result and
\* isLoading unchanged; every step of the advice, photo and voice flows
\* leaves weatherData, isFetchingWeather and the pending timer unchanged.
C14_ResolverAndFlowsIndependent ==
    [][/\ ResolverStep(ev') => UNCHANGED <<result, isLoading>>
       /\ FlowStep(ev') =>
              UNCHANGED <<weatherData, isFetchingWeather, timers, debounceTimeoutRef>>]_vars

\* C14, its case: a lookup has just failed while a request was in flight and
\* a voice session was active.
C14_Witness ==
    /\ ev.op = "lookupFail"
    /\ isLoading
    /\ pending # EmptyBag
    /\ isSessionActive

\* C16: every generateCropAdvice request passes a weatherData that is not
\* empty and was published by a lookup issued for exactly the locationText
\* passed in the same request.
C16_AdviceArgumentsConsistent ==
    (ev.op = "advice" /\ ev.weather # None) =>
        (ev.src # None /\ ev.src[1].arg = ev.loc)

\* C17: while isLoading is true result is empty.
C17_LoadingImpliesNoResult == isLoading => result = None

\* C17, its case: a flow has just started while a request of another flow
\* was in flight and a voice session was active: isLoading is true.
C17_Witness ==
    /\ isLoading
    /\ FlowStarted(ev)
    /\ BagCardinality(pending) = 2
    /\ isSessionActive

\* The handler that ran last was stopped by its guard: handleGetCropAdvice
\* without weatherData, handleImageAnalysis without a file, handleToggleVoice
\* with a session active.
GuardedTrigger(e) ==
    \/ e.op = "advice" /\ e.weather = None
    \/ e.op = "photo" /\ ~e.started
    \/ e.op = "toggleVoice" /\ e.stop

\* C18: a trigger stopped by its guard issues no advice or photo request
\* (pending unchanged), starts no voice session (isConnecting unchanged) and
\* leaves result and isLoading unchanged.
C18_GuardedTriggersAreNoOps ==
    [][GuardedTrigger(ev') =>
          UNCHANGED <<result, isLoading, pending, isConnecting>>]_vars

\* C18, its case: handleGetCropAdvice has just run without weatherData
\* while a result was on display.
C18_Witness ==
    /\ ev.op = "advice"
    /\ ev.weather = None
    /\ result # None
    /\ ~isLoading

\* ---------------------------------------------------------- specifications
\* window.setTimeout hands out at most MaxTimers handles.
CanSchedule(v) == Resolvable(v) => nextTimerId <= MaxTimers

ResolverNext ==
    \/ \E v \in Queries : CanSchedule(v) /\ OnQueryChange(v)
    \/ \E t \in timers : TimerElapse(t)
    \/ \E l \in lookups, d \in Payloads : LookupSuccess(l, d)
    \/ \E l \in lookups : LookupFailure(l)

FlowNext ==
    \/ AdviceEnabled /\ BagCardinality(pending) < MaxInFlight /\ HandleGetCropAdvice
    \/ PhotoEnabled /\ BagCardinality(pending) < MaxInFlight /\ HandleImageAnalysis
    \/ \E r \in BagToSet(pending) : FileRead(r)
    \/ \E r \in BagToSet(pending), o \in Responses : RequestSuccess(r, o)
    \/ \E r \in BagToSet(pending), e \in Errors : RequestFailure(r, e)
    \/ VoiceEnabled /\ HandleToggleVoice
    \/ VoiceConnected
    \/ VoiceFailure
    \/ \E o \in VoiceResponses : HandleFinalVoiceResponse(o)
    \/ \E l \in Languages : SetLanguage(l)
    \/ \E f \in BOOLEAN : SetImageFile(f)

\* The resolver alone: every query, MaxTimers timers.
ResolverSpec == Init /\ [][ResolverNext]_vars

\* The resolver under the scheduling of the event loop: a live timer elapses.
LiveSpec == ResolverSpec /\ WF_vars(\E t \in timers : TimerElapse(t))

\* The resolver when timers elapse and every lookup gets its response.
CompletingSpec ==
    /\ ResolverSpec
    /\ WF_vars(\E t \in timers : TimerElapse(t))
    /\ WF_vars(\E l \in lookups :
                  \/ \E d \in Payloads : LookupSuccess(l, d)
                  \/ LookupFailure(l))

\* The resolver with the advice flow: every query, the advice button.
AdviceNext ==
    \/ ResolverNext
    \/ AdviceEnabled /\ BagCardinality(pending) < MaxInFlight /\ HandleGetCropAdvice
    \/ \E r \in BagToSet(pending), o \in Responses : RequestSuccess(r, o)
    \/ \E r \in BagToSet(pending), e \in Errors : RequestFailure(r, e)

AdviceSpec == Init /\ [][AdviceNext]_vars

\* The whole component, the user typing one location.
Next ==
    \/ \E v \in FlowQueries : CanSchedule(v) /\ OnQueryChange(v)
    \/ \E t \in timers : TimerElapse(t)
    \/ \E l \in lookups, d \in Payloads : LookupSuccess(l, d)
    \/ \E l \in lookups : LookupFailure(l)
    \/ FlowNext

Spec == Init /\ [][Next]_vars

\* The whole component with its handlers also invoked where the view offers
\* no control for them: handleGetCropAdvice while the advice section is not
\* rendered, handleImageAnalysis while the analyse button is not rendered.
GuardNext ==
    \/ Next
    \/ weatherData = None /\ HandleGetCropAdvice
    \/ ~imageFile /\ HandleImageAnalysis

GuardSpec == Init /\ [][GuardNext]_vars
====
